---- MODULE Spec2Model ----
(***************************************************************************)
(* Model of qdarkstyle/utils/images.py: create_images (the svg -> png      *)
(* pipeline with its stylesheet cross-check), get_rc_links_from_scss and   *)
(* generate_qrc_file.                                                      *)
(*                                                                         *)
(* Python strings (file names, paths, stylesheet text, svg text, colors)   *)
(* are sequences of one-character strings, so that str.split, str.replace, *)
(* str.endswith, sorted() and the regular expression act on characters as  *)
(* they do in the program.                                                 *)
(***************************************************************************)
EXTENDS Integers, Sequences, FiniteSets, TLC

VARIABLES
    svgDir,       \* os.listdir(base_svg_path): sequence of file names
    scss,         \* STYLES_SCSS_FILEPATH: [readable, data]
    palette,      \* the palette class: four colors
    rcDir,        \* files of rc_path / RC_PATH: set of [name, data]
    tempDir,      \* files of temp_dir: set of [name, data]
    pc,           \* position of create_images: "start", "loop", "done", "aborted"
    error,        \* the exception that ended create_images, or "none"
    svg_fnames,   \* create_images local
    hi,           \* index into heights.items()
    ti,           \* index into svg_fnames
    color_files,  \* create_images local: the dict of the current template
    vi,           \* index into color_files.items(); 0 outside the inner loop
    num_svg, num_png, num_ignored, num_rc_list,
    rc_list,      \* create_images local: the working list of references
    log,          \* history: one record per call of convert_svg_to_png, with
                  \* what was passed, whether the raster was written, and
                  \* whether that iteration changed rc_list
    qrc           \* QRC_FILEPATH: << >> or the one call of generate_qrc_file that
                  \* wrote it last: its arguments and the text, as text pieces

vars == << svgDir, scss, palette, rcDir, tempDir, pc, error, svg_fnames, hi, ti,
           color_files, vi, num_svg, num_png, num_ignored, num_rc_list,
           rc_list, log, qrc >>

---------------------------------------------------------------------------
(* Bounds of the model *)

\* most files in the template directory
MaxTemplates == 2
\* most lines in the stylesheet
MaxLines == 2
\* most files in the rc directory when the qrc file is generated alone
MaxRcFiles == 3

---------------------------------------------------------------------------
(* Python string and path primitives *)

Last(s) == s[Len(s)]

SeqToSet(s) == { s[i] : i \in 1..Len(s) }

\* str.startswith / str.endswith
StartsWith(s, pre) ==
    Len(pre) <= Len(s) /\ SubSeq(s, 1, Len(pre)) = pre

EndsWith(s, suf) ==
    Len(suf) <= Len(s) /\ SubSeq(s, Len(s) - Len(suf) + 1, Len(s)) = suf

\* s.split(c) for a one-character separator c
RECURSIVE Split(_, _)
Split(s, c) ==
    LET hits == { i \in 1..Len(s) : s[i] = c } IN
    IF hits = {} THEN << s >>
    ELSE LET i == CHOOSE k \in hits : \A m \in hits : k <= m IN
         << SubSeq(s, 1, i - 1) >> \o Split(SubSeq(s, i + 1, Len(s)), c)

\* s.replace(old, new), old not empty: every non-overlapping occurrence,
\* left to right
RECURSIVE Replace(_, _, _)
Replace(s, old, new) ==
    IF Len(s) < Len(old) THEN s
    ELSE IF StartsWith(s, old)
         THEN new \o Replace(SubSeq(s, Len(old) + 1, Len(s)), old, new)
         ELSE << s[1] >> \o Replace(Tail(s), old, new)

\* sep.join(parts)
RECURSIVE Join(_, _)
Join(parts, sep) ==
    IF parts = << >> THEN << >>
    ELSE IF Len(parts) = 1 THEN parts[1]
    ELSE parts[1] \o sep \o Join(Tail(parts), sep)

\* os.path.basename (posix): what follows the last '/'
Basename(p) == Last(Split(p, "/"))

\* os.path.join (posix) of two components
PathJoin(a, b) ==
    IF StartsWith(b, << "/" >>) THEN b
    ELSE IF a = << >> \/ EndsWith(a, << "/" >>) THEN a \o b
    ELSE a \o << "/" >> \o b

\* list.remove(x) inside try/except ValueError: the first occurrence goes,
\* an absent element changes nothing
ListRemove(l, x) ==
    LET hits == { i \in 1..Len(l) : l[i] = x } IN
    IF hits = {} THEN l
    ELSE LET i == CHOOSE k \in hits : \A m \in hits : k <= m IN
         SubSeq(l, 1, i - 1) \o SubSeq(l, i + 1, Len(l))

\* dict[k] = v on a dict kept as a sequence of << key, value >> in insertion order
DictSet(d, k, v) ==
    IF \E i \in 1..Len(d) : d[i][1] = k
    THEN [ i \in 1..Len(d) |-> IF d[i][1] = k THEN << k, v >> ELSE d[i] ]
    ELSE Append(d, << k, v >>)

\* a file written into a directory replaces the file of that name
Put(dir, name, data) ==
    { f \in dir : f.name # name } \cup { [name |-> name, data |-> data] }

Names(dir) == { f.name : f \in dir }

\* the sequences of at most n elements of S; without repetition when
\* distinct is TRUE (a directory listing), with it otherwise (lines of a file)
RECURSIVE Listings(_, _, _)
Listings(S, n, distinct) ==
    IF n = 0 THEN { << >> }
    ELSE LET shorter == Listings(S, n - 1, distinct) IN
         shorter \cup UNION { { Append(l, x) :
                                   x \in { y \in S : ~distinct \/ \A i \in 1..Len(l) : l[i] # y } } :
                               l \in shorter }

\* the orders in which the elements of a finite set can be listed
RECURSIVE Orders(_)
Orders(S) ==
    IF S = {} THEN { << >> }
    ELSE UNION { { << x >> \o l : l \in Orders(S \ {x}) } : x \in S }

---------------------------------------------------------------------------
(* Program constants *)

IMAGE_BLACKLIST == << << "b","a","s","e","_","p","a","l","e","t","t","e" >> >>

TEMPLATE_QRC_HEADER(resource_prefix) ==
    << "\n<RCC warning=\"File created programmatically. All changes made in this file will be lost!\">\n  <qresource prefix=\"",
       resource_prefix,
       "\">\n" >>

TEMPLATE_QRC_FILE(fname) == << "    <file>rc/", fname, "</file>" >>

TEMPLATE_QRC_FOOTER(style_prefix) ==
    << "\n  </qresource>\n  <qresource prefix=\"",
       style_prefix,
       "\">\n      <file>style.qss</file>\n  </qresource>\n</RCC>\n" >>

base_height == 32

\* heights.items(), in insertion order
heights == << [height |-> 32, ext |-> << ".","p","n","g" >>],
              [height |-> 64, ext |-> << "@","2","x",".","p","n","g" >>] >>

\* base_color of _create_colored_svg
base_color == << "#","f","f","0","0","0","0" >>

DotSvg == << ".","s","v","g" >>
DotPng == << ".","p","n","g" >>

---------------------------------------------------------------------------
(* _get_file_color_map *)

\* name, ext = fname.split('.') raises ValueError unless there are two parts
SplitsInTwo(fname) == Len(Split(fname, ".")) = 2

StateKey(fname, suffix) ==
    LET name == Split(fname, ".")[1]
        ext  == Split(fname, ".")[2]
    IN  name \o suffix \o << "." >> \o ext

Sfx_disabled == << "_","d","i","s","a","b","l","e","d" >>
Sfx_focus    == << "_","f","o","c","u","s" >>
Sfx_pressed  == << "_","p","r","e","s","s","e","d" >>

\* _get_file_color_map with a fault: the focus and pressed colors swapped
_get_file_color_map_swapped(fname, pal) ==
    DictSet(DictSet(DictSet(DictSet(<< >>,
        fname, pal.COLOR_FOREGROUND_DARK),
        StateKey(fname, Sfx_disabled), pal.COLOR_BACKGROUND_NORMAL),
        StateKey(fname, Sfx_focus), pal.COLOR_SELECTION_NORMAL),
        StateKey(fname, Sfx_pressed), pal.COLOR_SELECTION_LIGHT)

\* The dict returned for a file name that splits in two: files_map[fname]
_get_file_color_map(fname, pal) ==
    LET color_disabled == pal.COLOR_BACKGROUND_NORMAL
        color_focus    == pal.COLOR_SELECTION_LIGHT
        color_pressed  == pal.COLOR_SELECTION_NORMAL
        color_normal   == pal.COLOR_FOREGROUND_DARK
        d1 == DictSet(<< >>, fname, color_normal)
        d2 == DictSet(d1, StateKey(fname, Sfx_disabled), color_disabled)
        d3 == DictSet(d2, StateKey(fname, Sfx_focus), color_focus)
        d4 == DictSet(d3, StateKey(fname, Sfx_pressed), color_pressed)
    IN  d4

---------------------------------------------------------------------------
(* _create_colored_svg and convert_svg_to_png *)

\* new_data = data.replace(base_color, color)
_create_colored_svg(data, color) == Replace(data, base_color, color)

\* The rendering engine (Qt), seen from convert_svg_to_png: for a document it
\* can parse, img.save writes the raster; for one it cannot, the pixmap is
\* null and img.save returns False, which the code does not look at.
Renderable(data) ==
    /\ Len(data) >= 2
    /\ data[1] = "<"
    /\ Last(data) = ">"

convert_svg_to_png(dir, data, png_fname, height, width) ==
    IF Renderable(data)
    THEN Put(dir, png_fname, [svg |-> data, height |-> height, width |-> width])
    ELSE dir

\* PngName with a fault: the suffix of the size is not used
PngName_NoSize(color_svg_name, ext) == Replace(color_svg_name, DotSvg, DotPng)

\* png_fname = color_svg_name.replace('.svg', ext)
PngName(color_svg_name, ext) == Replace(color_svg_name, DotSvg, ext)

\* RcName with a fault: the leading '/' is missing
RcName_NoSlash(rc_path, png_fname) ==
    PathJoin(Basename(rc_path), Basename(png_fname))

\* rc_name = f'/{os.path.join(rc_base, png_base)}'
RcName(rc_path, png_fname) ==
    << "/" >> \o PathJoin(Basename(rc_path), Basename(png_fname))

\* IsBaseHeight with a fault: the references are checked at every size
IsBaseHeight_Any(height) == TRUE

\* if height == base_height
IsBaseHeight(height) == height = base_height

\* svg_name not in IMAGE_BLACKLIST, with svg_name = svg_fname.split('.')[0]
Blacklisted(svg_fname) ==
    \E i \in 1..Len(IMAGE_BLACKLIST) : IMAGE_BLACKLIST[i] = Split(svg_fname, ".")[1]

---------------------------------------------------------------------------
(* get_rc_links_from_scss, default pattern r"\/.*\.png" *)

\* ".png" starts at position j of line
PngAt(line, j) == j + 3 <= Len(line) /\ SubSeq(line, j, j + 3) = DotPng

\* re.search(r"(\/.*\.png)", line): the leftmost '/' after which ".png"
\* occurs, and, '.*' being greedy, up to the last ".png" of the line.
\* << >> stands for no match (a match is never empty).
ReSearch(line) ==
    LET starts == { i \in 1..Len(line) :
                      line[i] = "/" /\ \E j \in (i + 1)..Len(line) : PngAt(line, j) }
    IN  IF starts = {} THEN << >>
        ELSE LET i  == CHOOSE k \in starts : \A m \in starts : k <= m
                 js == { j \in (i + 1)..Len(line) : PngAt(line, j) }
                 j  == CHOOSE k \in js : \A m \in js : k >= m
             IN  SubSeq(line, i, j + 3)

\* rc_list after the loop over the lines, before list(set(rc_list))
RECURSIVE MatchList(_)
MatchList(lines) ==
    IF lines = << >> THEN << >>
    ELSE LET m == ReSearch(lines[1]) IN
         (IF m # << >> THEN << m >> ELSE << >>) \o MatchList(Tail(lines))

\* set(rc_list) of the return statement; list() of it is one of Orders(..)
get_rc_links_from_scss(data) ==
    SeqToSet(MatchList(Split(data, "\n")))

---------------------------------------------------------------------------
(* generate_qrc_file *)

\* code point of the characters that occur in file names of the model
Ord(c) ==
    CASE c = "." -> 46  [] c = "2" -> 50  [] c = "@" -> 64  [] c = "Z" -> 90
      [] c = "_" -> 95  [] c = "a" -> 97  [] c = "b" -> 98  [] c = "c" -> 99
      [] c = "d" -> 100 [] c = "e" -> 101 [] c = "f" -> 102 [] c = "g" -> 103
      [] c = "i" -> 105 [] c = "l" -> 108 [] c = "m" -> 109 [] c = "n" -> 110
      [] c = "o" -> 111 [] c = "p" -> 112 [] c = "r" -> 114 [] c = "s" -> 115
      [] c = "t" -> 116 [] c = "u" -> 117 [] c = "v" -> 118 [] c = "x" -> 120

\* s < t for Python strings
RECURSIVE StrLess(_, _)
StrLess(s, t) ==
    IF t = << >> THEN FALSE
    ELSE IF s = << >> THEN TRUE
    ELSE IF s[1] = t[1] THEN StrLess(Tail(s), Tail(t))
    ELSE Ord(s[1]) < Ord(t[1])

\* Sorted with a fault: descending order
RECURSIVE Sorted_Descending(_)
Sorted_Descending(S) ==
    IF S = {} THEN << >>
    ELSE LET greatest == CHOOSE x \in S : \A y \in S \ {x} : StrLess(y, x)
         IN  << greatest >> \o Sorted_Descending(S \ {greatest})

\* sorted(os.listdir(RC_PATH))
RECURSIVE Sorted(_)
Sorted(S) ==
    IF S = {} THEN << >>
    ELSE LET least == CHOOSE x \in S : \A y \in S \ {x} : StrLess(x, y)
         IN  << least >> \o Sorted(S \ {least})

\* '\n'.join(files) on the formatted entries, as text pieces
RECURSIVE JoinPieces(_)
JoinPieces(files) ==
    IF files = << >> THEN << >>
    ELSE IF Len(files) = 1 THEN << files[1] >>
    ELSE << files[1], "\n" >> \o JoinPieces(Tail(files))

qrc_content(names, resource_prefix, style_prefix) ==
    LET sorted == Sorted(names)
        files  == [ i \in 1..Len(sorted) |-> TEMPLATE_QRC_FILE(sorted[i]) ]
    IN  [ header |-> TEMPLATE_QRC_HEADER(resource_prefix),
          body   |-> JoinPieces(files),
          footer |-> TEMPLATE_QRC_FOOTER(style_prefix) ]

---------------------------------------------------------------------------
(* Inputs *)

\* RC_PATH, the default of rc_path
RC_PATH == << "/","q","/","r","c" >>

F_a       == << "a" >> \o DotSvg
F_a_focus == << "a" >> \o Sfx_focus \o DotSvg
F_a_2x    == << "a","@","2","x" >> \o DotSvg
F_palette == IMAGE_BLACKLIST[1] \o DotSvg
F_a_b     == << "a",".","b" >> \o DotSvg
F_m       == << "m" >> \o DotSvg

\* the files a template directory may hold
FileUniverse == { F_a, F_a_focus, F_a_2x, F_palette, F_a_b }

\* the same and a template the rendering engine cannot parse
FaultyFileUniverse == FileUniverse \cup { F_m }

\* the text of a file of the template directory: every template carries the
\* placeholder color; m.svg is a document the rendering engine cannot parse
SvgData(fname) ==
    IF fname = F_m THEN base_color
    ELSE << "<" >> \o base_color \o << ">" >>

L_a     == << "u","(","/","r","c","/","a",".","p","n","g",")" >>
L_a_h   == << "/","r","c","/","a",".","p","n","g"," ","/","r","c","/","h",".","p","n","g" >>
L_a_2x  == << "/","r","c","/","a","@","2","x",".","p","n","g" >>
L_none  == << "x",":","1" >>

\* the lines a stylesheet may hold
LineUniverse == { L_a, L_a_h, L_a_2x, L_none }

\* the stylesheets that can be read
Stylesheets ==
    { [readable |-> TRUE, data |-> Join(lines, << "\n" >>)] :
        lines \in Listings(LineUniverse, MaxLines, FALSE) }

\* a stylesheet that open() cannot read
Unreadable == [readable |-> FALSE, data |-> << >>]

Palettes ==
    { [COLOR_BACKGROUND_NORMAL |-> << "#","2" >>, COLOR_SELECTION_LIGHT  |-> << "#","3" >>,
       COLOR_SELECTION_NORMAL  |-> << "#","4" >>, COLOR_FOREGROUND_DARK  |-> << "#","1" >>],
      [COLOR_BACKGROUND_NORMAL |-> << "#","5" >>, COLOR_SELECTION_LIGHT  |-> << "#","6" >>,
       COLOR_SELECTION_NORMAL  |-> << "#","6" >>, COLOR_FOREGROUND_DARK  |-> << "#","7" >>] }

\* the file names an rc directory may hold when the qrc file is generated
RcUniverse ==
    { << "a" >> \o DotPng, << "a","@","2","x" >> \o DotPng,
      << "a" >> \o Sfx_focus \o DotPng, << "b" >> \o DotPng, << "Z" >> \o DotPng,
      << "a" >> }

Prefixes == { "qss_icons", "qdarkstyle" }

NoRaster == [svg |-> << >>, height |-> 0, width |-> 0]

---------------------------------------------------------------------------
(* State machine *)

Locals0 ==
    /\ tempDir = {}
    /\ error = "none"
    /\ svg_fnames = << >>
    /\ hi = 0 /\ ti = 0 /\ vi = 0
    /\ color_files = << >>
    /\ num_svg = 0 /\ num_png = 0 /\ num_ignored = 0 /\ num_rc_list = 0
    /\ rc_list = << >>
    /\ log = << >>
    /\ qrc = << >>

\* create_images is called on a template directory, a stylesheet and a palette;
\* the rc directory is clean
InitWith(files, sheets) ==
    /\ svgDir \in Listings(files, MaxTemplates, TRUE)
    /\ scss \in sheets
    /\ palette \in Palettes
    /\ rcDir = {}
    /\ pc = "start"
    /\ Locals0

\* the stylesheet can be read and every template can be rendered
Init == InitWith(FileUniverse, Stylesheets)

\* the stylesheet may be unreadable and a template may fail to render
InitFault == InitWith(FaultyFileUniverse, Stylesheets \cup { Unreadable })

\* create_images up to its loops: the listing, the counters, the references
Start ==
    /\ pc = "start"
    /\ tempDir' = {}
    /\ svg_fnames' = SelectSeq(svgDir, LAMBDA f : EndsWith(f, DotSvg))
    /\ num_svg' = Len(svg_fnames')
    /\ num_png' = 0
    /\ num_ignored' = 0
    /\ IF scss.readable
       THEN /\ rc_list' \in Orders(get_rc_links_from_scss(scss.data))
            /\ num_rc_list' = Len(rc_list')
            /\ pc' = "loop"
            /\ hi' = 1 /\ ti' = 1 /\ vi' = 0
            /\ error' = error
       ELSE \* open(STYLES_SCSS_FILEPATH) raises, nothing catches it
            /\ pc' = "aborted"
            /\ error' = "IOError"
            /\ UNCHANGED << rc_list, num_rc_list, hi, ti, vi >>
    /\ UNCHANGED << svgDir, scss, palette, rcDir, color_files, log, qrc >>

\* one iteration of "for svg_fname in svg_fnames" up to the inner loop
NextTemplate ==
    /\ pc = "loop" /\ vi = 0 /\ ti <= Len(svg_fnames)
    /\ LET svg_fname == svg_fnames[ti] IN
       IF Blacklisted(svg_fname)
       THEN /\ num_ignored' = num_ignored + 1
            /\ ti' = ti + 1
            /\ UNCHANGED << pc, error, color_files, vi >>
       ELSE IF SplitsInTwo(svg_fname)
       THEN /\ color_files' = _get_file_color_map(svg_fname, palette)
            /\ vi' = 1
            /\ UNCHANGED << pc, error, num_ignored, ti >>
       ELSE \* ValueError out of _get_file_color_map, nothing catches it
            /\ pc' = "aborted"
            /\ error' = "ValueError"
            /\ UNCHANGED << num_ignored, ti, color_files, vi >>
    /\ UNCHANGED << svgDir, scss, palette, rcDir, tempDir, svg_fnames, hi,
                    num_svg, num_png, num_rc_list, rc_list, log, qrc >>

\* one iteration of "for color_svg_name, color in color_files.items()"
ProcessVariant ==
    /\ pc = "loop" /\ vi >= 1 /\ vi <= Len(color_files)
    /\ LET height         == heights[hi].height
           ext            == heights[hi].ext
           width          == height
           svg_fname      == svg_fnames[ti]
           color_svg_name == color_files[vi][1]
           color          == color_files[vi][2]
           new_data       == _create_colored_svg(SvgData(svg_fname), color)
           png_fname      == PngName(color_svg_name, ext)
       IN  /\ tempDir' = Put(tempDir, color_svg_name, new_data)
           /\ rcDir' = convert_svg_to_png(rcDir, new_data, png_fname, height, width)
           /\ num_png' = num_png + 1
           /\ rc_list' = IF IsBaseHeight(height)
                         THEN ListRemove(rc_list, RcName(RC_PATH, png_fname))
                         ELSE rc_list
           /\ log' = Append(log, [svg |-> svg_fname, name |-> color_svg_name,
                                  png |-> png_fname, height |-> height,
                                  color |-> color, data |-> new_data,
                                  saved |-> Renderable(new_data),
                                  rc_changed |-> rc_list' # rc_list])
    /\ IF vi < Len(color_files)
       THEN vi' = vi + 1 /\ UNCHANGED << ti, color_files >>
       ELSE vi' = 0 /\ ti' = ti + 1 /\ UNCHANGED color_files
    /\ UNCHANGED << svgDir, scss, palette, pc, error, svg_fnames, hi, num_svg,
                    num_ignored, num_rc_list, qrc >>

\* "for height, ext in heights.items()": on to the next size
NextHeight ==
    /\ pc = "loop" /\ vi = 0 /\ ti > Len(svg_fnames) /\ hi < Len(heights)
    /\ hi' = hi + 1
    /\ ti' = 1
    /\ UNCHANGED << svgDir, scss, palette, rcDir, tempDir, pc, error, svg_fnames,
                    color_files, vi, num_svg, num_png, num_ignored, num_rc_list,
                    rc_list, log, qrc >>

\* the loops are over: the counters are logged and create_images returns
Finish ==
    /\ pc = "loop" /\ vi = 0 /\ ti > Len(svg_fnames) /\ hi = Len(heights)
    /\ pc' = "done"
    /\ UNCHANGED << svgDir, scss, palette, rcDir, tempDir, error, svg_fnames, hi, ti,
                    color_files, vi, num_svg, num_png, num_ignored, num_rc_list,
                    rc_list, log, qrc >>

Next == Start \/ NextTemplate \/ ProcessVariant \/ NextHeight \/ Finish

Spec == Init /\ [][Next]_vars

SpecFault == InitFault /\ [][Next]_vars

\* generate_qrc_file, on whatever the rc directory holds
InitQrc ==
    /\ svgDir = << >>
    /\ scss = Unreadable
    /\ palette = CHOOSE pal \in Palettes : TRUE
    /\ rcDir \in { { [name |-> n, data |-> NoRaster] : n \in S } :
                     S \in { T \in SUBSET RcUniverse : Cardinality(T) <= MaxRcFiles } }
    /\ pc = "idle"
    /\ Locals0

generate_qrc_file(resource_prefix, style_prefix) ==
    /\ pc \in { "idle", "done" }
    /\ qrc' = << [resource_prefix |-> resource_prefix,
                   style_prefix    |-> style_prefix,
                   content |-> qrc_content(Names(rcDir), resource_prefix, style_prefix)] >>
    /\ UNCHANGED << svgDir, scss, palette, rcDir, tempDir, pc, error, svg_fnames, hi,
                    ti, color_files, vi, num_svg, num_png, num_ignored, num_rc_list,
                    rc_list, log >>

GenerateQrc == \E rp \in Prefixes, sp \in Prefixes : generate_qrc_file(rp, sp)

NextQrc == GenerateQrc

SpecQrc == InitQrc /\ [][NextQrc]_vars

---------------------------------------------------------------------------
(* Vocabulary of the properties *)

LogSet == { log[i] : i \in 1..Len(log) }

\* create_images has returned or was ended by an exception
Ended == pc \in { "done", "aborted" }

\* the references the stylesheet holds, as extracted
References == get_rc_links_from_scss(scss.data)

\* '/{basename of output dir}/{filename}'
CanonicalPath(fname) == << "/","r","c","/" >> \o fname

\* base name and extension of a template file name with exactly one '.'
BaseOf(fname) == SubSeq(fname, 1, Len(fname) - Len(DotSvg))

StateSuffixes == { << >>, Sfx_disabled, Sfx_focus, Sfx_pressed }

\* the templates of the directory that are not blacklisted
Processable == { f \in SeqToSet(svg_fnames) : BaseOf(f) \notin SeqToSet(IMAGE_BLACKLIST) }

\* the file names the naming scheme gives the states of template f at a size
\* whose suffix is ext
ExpectedPngs(f, ext) == { BaseOf(f) \o sfx \o ext : sfx \in StateSuffixes }

NoDuplicates(l) == \A i, j \in 1..Len(l) : i # j => l[i] # l[j]

---------------------------------------------------------------------------
(* C1 *)

---------------------------------------------------------------------------
(* C10 *)

SamePath(e, paths) == CanonicalPath(e.png) \in paths

\* C10 as stated: no iteration of a run at the double-density size 64 changed
\* rc_list, and when create_images has completed every stylesheet reference
\* to the path of a file written at size 64 in this run is still in rc_list.
C10_Orig ==
    /\ Ended => \A e \in LogSet : e.height = 64 => ~e.rc_changed
    /\ pc = "done" =>
         \A e \in LogSet :
            (e.height = 64 /\ e.saved /\ SamePath(e, References))
               => SamePath(e, SeqToSet(rc_list))

\* C10 amended: no iteration of a run at the double-density size 64 changed
\* rc_list, and when create_images has completed every stylesheet reference to
\* the path of a file written at size 64 in this run is still in rc_list,
\* unless an asset of the base size was written under that same file name.
C10_BaseSizeOnly ==
    /\ Ended => \A e \in LogSet : e.height = 64 => ~e.rc_changed
    /\ pc = "done" =>
         \A e \in LogSet :
            (/\ e.height = 64 /\ e.saved /\ SamePath(e, References)
             /\ \A b \in LogSet : b.height = 32 => b.png # e.png)
               => SamePath(e, SeqToSet(rc_list))

\* a completed run that wrote a double-density file the stylesheet refers to,
\* the reference still unmatched
C10_Witness ==
    /\ pc = "done"
    /\ \E e \in LogSet :
          /\ e.height = 64 /\ e.saved
          /\ SamePath(e, References)
          /\ SamePath(e, SeqToSet(rc_list))

---------------------------------------------------------------------------
(* C3 *)

\* what the naming scheme appends to a base name: a state suffix, then the
\* size suffix without its ".png"
NameExtensions ==
    { sfx \o z : sfx \in StateSuffixes, z \in { << >>, << "@","2","x" >> } }

\* template f is named as template g followed by a non-empty extension
Extends(f, g) ==
    \E x \in NameExtensions \ { << >> } : BaseOf(f) = BaseOf(g) \o x

\* C3 as stated: any two assets of a run that has ended have different output
\* file names, and any two of the same size different temporary svg names.
C3_Orig ==
    Ended =>
      \A i, j \in 1..Len(log) :
        i < j => /\ log[i].png # log[j].png
                 /\ log[i].height = log[j].height => log[i].name # log[j].name

\* C3 amended: two assets of a run that has ended have different output file
\* names, and at the same size different temporary svg names, unless they
\* come from two templates of which one is named as the other followed by a
\* state suffix (_disabled, _focus, _pressed), by "@2x", or by a state suffix
\* and "@2x".
C3_UniqueNames ==
    Ended =>
      \A i, j \in 1..Len(log) :
        (i < j /\ ~Extends(log[i].svg, log[j].svg) /\ ~Extends(log[j].svg, log[i].svg))
           => /\ log[i].png # log[j].png
              /\ log[i].height = log[j].height => log[i].name # log[j].name

\* a completed run over two templates, neither named as an extension of the
\* other: sixteen assets
C3_Witness ==
    /\ pc = "done"
    /\ Len(log) = 16
    /\ \E e, f \in LogSet :
          e.svg # f.svg /\ ~Extends(e.svg, f.svg) /\ ~Extends(f.svg, e.svg)

---------------------------------------------------------------------------
(* C7 *)

\* the color the palette gives a state, by the suffix of the state
ColorOf(pal, sfx) ==
    IF sfx = Sfx_disabled THEN pal.COLOR_BACKGROUND_NORMAL
    ELSE IF sfx = Sfx_focus THEN pal.COLOR_SELECTION_LIGHT
    ELSE IF sfx = Sfx_pressed THEN pal.COLOR_SELECTION_NORMAL
    ELSE pal.COLOR_FOREGROUND_DARK

Dots(fname) == Cardinality({ i \in 1..Len(fname) : fname[i] = "." })

\* the four entries of the claim for '{name}.{ext}'
FourEntries(fname, pal) ==
    LET dot  == CHOOSE i \in 1..Len(fname) : fname[i] = "."
        name == SubSeq(fname, 1, dot - 1)
        rest == SubSeq(fname, dot, Len(fname))
    IN  { << name \o sfx \o rest, ColorOf(pal, sfx) >> : sfx \in StateSuffixes }

\* C7: for a template file name with exactly one '.' of the directory
\* create_images is called on, _get_file_color_map returns four entries with four different keys: '{name}.{ext}' with the
\* normal color and '{name}_disabled.{ext}', '{name}_focus.{ext}',
\* '{name}_pressed.{ext}' with the disabled, focus and pressed colors; the
\* dict create_images iterates over is that one; and a completed run over one
\* template that is not blacklisted has written, at each size, exactly the
\* four files of these names, each rendered from the template with the
\* placeholder replaced by the color of its state.
C7_FourStates ==
    /\ \A f \in SeqToSet(svgDir) :
          (pc = "start" /\ Dots(f) = 1) =>
             LET m == _get_file_color_map(f, palette) IN
             /\ Len(m) = 4
             /\ \A i, j \in 1..4 : i # j => m[i][1] # m[j][1]
             /\ SeqToSet(m) = FourEntries(f, palette)
    /\ vi >= 1 => SeqToSet(color_files) = FourEntries(svg_fnames[ti], palette)
    /\ \A f \in Processable :
          (pc = "done" /\ Processable = { f }) =>
             \A k \in 1..Len(heights) :
                LET files == { x \in rcDir : x.data.height = heights[k].height } IN
                /\ Cardinality(files) = 4
                /\ Names(files) = ExpectedPngs(f, heights[k].ext)
                /\ \A sfx \in StateSuffixes :
                      \E x \in files :
                         /\ x.name = BaseOf(f) \o sfx \o heights[k].ext
                         /\ x.data.svg = << "<" >> \o ColorOf(palette, sfx) \o << ">" >>

\* a completed run over the one template a.svg: eight files, four per size
C7_Witness ==
    /\ pc = "done"
    /\ Processable = { F_a }
    /\ Cardinality(rcDir) = 8

---------------------------------------------------------------------------
(* C5 *)

BlacklistedTemplates ==
    { i \in 1..Len(svg_fnames) : BaseOf(svg_fnames[i]) \in SeqToSet(IMAGE_BLACKLIST) }

\* C5 as stated: a blacklisted template leads to no asset at any size and is
\* never counted in num_png, and when create_images has completed num_ignored
\* is the number of blacklisted templates of the template directory.
C5_Orig ==
    /\ \A e \in LogSet : BaseOf(e.svg) \notin SeqToSet(IMAGE_BLACKLIST)
    /\ num_png = Len(log)
    /\ pc = "done" => num_ignored = Cardinality(BlacklistedTemplates)

---------------------------------------------------------------------------
(* C2 *)

\* every state of template f was passed to the renderer at every size
FullyProcessed(f) ==
    \A k \in 1..Len(heights) :
        ExpectedPngs(f, heights[k].ext)
           \subseteq { e.png : e \in { x \in LogSet : x.svg = f /\ x.height = heights[k].height } }

\* C2 as stated: a template file name that does not split into exactly
\* (name, extension) stops neither the run nor the other templates: the run
\* reaches its end, every other template that is not blacklisted having been
\* processed at every size.
C2_Orig ==
    Ended =>
        /\ pc = "done"
        /\ \A f \in Processable : Dots(f) = 1 => FullyProcessed(f)

---------------------------------------------------------------------------
(* C9 *)

HasPng(line) ==
    \E i \in 1..Len(line) : line[i] = "/" /\ \E j \in (i + 1)..Len(line) : PngAt(line, j)

\* the first path token of the line that ends in ".png": from the first '/'
\* that ".png" follows to the first ".png" after it
FirstRef(line) ==
    LET i == CHOOSE k \in 1..Len(line) :
                /\ line[k] = "/" /\ \E j \in (k + 1)..Len(line) : PngAt(line, j)
                /\ \A m \in 1..(k - 1) :
                      ~(line[m] = "/" /\ \E j \in (m + 1)..Len(line) : PngAt(line, j))
        j == CHOOSE k \in (i + 1)..Len(line) :
                PngAt(line, k) /\ \A m \in (i + 1)..(k - 1) : ~PngAt(line, m)
    IN  SubSeq(line, i, j + 3)

\* C9 as stated: the list get_rc_links_from_scss returns (rc_list before the
\* first asset is processed) has no duplicates and holds, for each line with
\* a raster path, the first reference of that line and nothing else.
C9_Orig ==
    (pc = "loop" /\ log = << >>) =>
        /\ NoDuplicates(rc_list)
        /\ SeqToSet(rc_list)
              = { FirstRef(l) : l \in { x \in SeqToSet(Split(scss.data, "\n")) : HasPng(x) } }

---------------------------------------------------------------------------
(* C4 *)

\* C4 as stated: when the stylesheet cannot be read, create_images still ends
\* with every asset of every template that is not blacklisted written, at
\* every size (here for template directories whose files all have well-formed
\* names and can be rendered).
C4_Orig ==
    (/\ Ended
     /\ ~scss.readable
     /\ \A f \in SeqToSet(svgDir) : Dots(f) = 1 /\ Renderable(SvgData(f)))
       => \A f \in SeqToSet(svgDir) :
             BaseOf(f) \notin SeqToSet(IMAGE_BLACKLIST) =>
                \A k \in 1..Len(heights) : ExpectedPngs(f, heights[k].ext) \subseteq Names(rcDir)

---------------------------------------------------------------------------
(* C6 *)

\* C6 as stated: num_png counts the assets whose raster file was written, an
\* asset whose rasterization failed is not among them, and a completed run
\* has processed every asset of every template that is not blacklisted.
C6_Orig ==
    /\ num_png = Cardinality({ i \in 1..Len(log) : log[i].saved })
    /\ pc = "done" => \A f \in Processable : FullyProcessed(f)

---------------------------------------------------------------------------
(* C8 *)

====
